---- MODULE Spec2Model ----
(***************************************************************************)
(* A model of nb_runtype/runtype.py: the session control operations        *)
(* (enable_runtype, disable_runtype, is_runtype_enabled,                   *)
(* get_runtype_config) acting on the IPython shell object, the AST         *)
(* transformer RuntypeASTDecorator, and the wrapper built by the _runtype  *)
(* decorator around pydantic's validate_call.                              *)
(*                                                                         *)
(* Python values are written as strings holding their repr ("True",        *)
(* "False", "1", "None"); a dict is a function from its keys; an absent    *)
(* attribute or namespace entry is a key outside the DOMAIN.               *)
(***************************************************************************)
EXTENDS Integers, Sequences, FiniteSets, TLC

VARIABLES
    ipython,           \* what get_ipython() returns: "None" or "InteractiveShell"
    ast_transformers,  \* ip.ast_transformers: a list of transformer instances
    ip_attrs,          \* the attributes this module sets on ip (name -> value)
    user_ns,           \* ip.user_ns restricted to the names this module binds
    ret,               \* the outcome of the last operation called
    node,              \* the AST node a RuntypeASTDecorator instance works on
    visits,            \* how many times the transformer has visited node
    wrapped,           \* the callable under call: what _runtype(func) returned
    notebook           \* the cell being executed and what the user's code holds

vars == <<ipython, ast_transformers, ip_attrs, user_ns, ret, node, visits, wrapped,
          notebook>>

session == <<ipython, ast_transformers, ip_attrs, user_ns>>

-----------------------------------------------------------------------------
(* Module constants, runtype.py lines 15-18.                               *)

_RUNTYPE_WRAPPER == "_runtype"

_RUNTYPE_ENABLED == "_runtype_enabled"

_RUNTYPE_CONFIG == "_runtype_config"

_RUNTYPE_EXCLUSION == "_no_runtype"

-----------------------------------------------------------------------------
(* Bounds of the model.                                                    *)

\* The longest ip.ast_transformers list explored.
MaxTransformers == 3

-----------------------------------------------------------------------------
(* Python values and the host.                                             *)

\* The values passed as flag arguments: the two booleans and a non-boolean
\* (the int 1, which Python compares equal to True but is no bool instance).
FlagValues == {"True", "False", "1"}

\* isinstance(param, bool)
IsBool(v) == v \in {"True", "False"}

EmptyDict == [k \in {} |-> "None"]

\* d without the key k (del d[k] / delattr)
DictDel(d, k) == [j \in (DOMAIN d) \ {k} |-> d[j]]

\* d with k bound to v (d[k] = v / setattr)
DictSet(d, k, v) == [j \in (DOMAIN d) \cup {k} |-> IF j = k THEN v ELSE d[j]]

\* The class name of a RuntypeASTDecorator instance in ip.ast_transformers.
RuntypeASTDecorator == "RuntypeASTDecorator"

\* Transformers other extensions registered with the host before this one.
OtherTransformers == {"OtherA", "OtherB"}

\* The transformer lists a fresh host may hold.
HostTransformerLists ==
    {<<>>, <<"OtherA">>, <<"OtherB", "OtherA">>}

\* What an operation leaves behind for its caller: the class of the exception
\* raised ("None" when it returned), its message, the value returned (a list
\* of zero or one value), the line printed, and, for a call of a user
\* function, the exception object (a list of zero or one exception).
Outcome(op, args, raised, msg, value, printed) ==
    [op |-> op, args |-> args, raised |-> raised, msg |-> msg,
     value |-> value, printed |-> printed, exc |-> <<>>]

NoCall == Outcome("none", <<>>, "None", "", <<>>, "")

\* _get_ipython_context(): the shell, or RuntimeError outside IPython.
HostMissing(op, args) ==
    Outcome(op, args, "RuntimeError",
            "This should be run from an IPython environment.", <<>>, "")

\* _is_runtype_enabled(ip): hasattr(ip, _RUNTYPE_ENABLED)
_is_runtype_enabled == _RUNTYPE_ENABLED \in DOMAIN ip_attrs

-----------------------------------------------------------------------------
(* enable_runtype                                                          *)

\* The steps of enable_runtype that call into the host and may raise there.
Faults == {"none", "push", "append", "setattr_enabled", "setattr_config"}

\* Mutant of ConfigDict: the strict and validate_return values change places.
ConfigDict_Swapped(strict, validate_return, validate_default, arbitrary_types_allowed) ==
    [strict |-> validate_return, validate_return |-> strict,
     validate_default |-> validate_default,
     arbitrary_types_allowed |-> arbitrary_types_allowed]

\* The config dict built at lines 117-122.
ConfigDict(strict, validate_return, validate_default, arbitrary_types_allowed) ==
    [strict |-> strict, validate_return |-> validate_return,
     validate_default |-> validate_default,
     arbitrary_types_allowed |-> arbitrary_types_allowed]

\* The _runtype closure: it captures config and validate_return.
Closure(config, validate_return) ==
    [config |-> config, validate_return |-> validate_return]

\* Mutant of AllBool: any() in place of all().
AllBool_Any(args) == \E i \in 1..4 : IsBool(args[i])

\* all(isinstance(param, bool) for param in [...]), lines 97-105
AllBool(args) == \A i \in 1..4 : IsBool(args[i])

\* if _RUNTYPE_WRAPPER in ip.user_ns: del ip.user_ns[_RUNTYPE_WRAPPER]
\* (the except branch of enable_runtype, and the end of disable_runtype)
RemoveFromNamespace(ns) ==
    IF _RUNTYPE_WRAPPER \in DOMAIN ns THEN DictDel(ns, _RUNTYPE_WRAPPER) ELSE ns

\* Lines 170-187 of enable_runtype, reached with boolean flags on a host
\* that is not enabled: push the closure, append the transformer, set the two
\* attributes. fault names the host call that raises, if any.
Install(args, fault) ==
    LET config == ConfigDict(args[1], args[2], args[3], args[4])
        pushed == DictSet(user_ns, _RUNTYPE_WRAPPER, Closure(config, args[2]))
        appended == Append(ast_transformers, RuntypeASTDecorator)
        flagged == DictSet(ip_attrs, _RUNTYPE_ENABLED, "True")
        stored == DictSet(flagged, _RUNTYPE_CONFIG, config)
        failed == Outcome("enable", args, "RuntimeError",
                          "Failed to register AST transformer", <<>>, "")
    IN
    IF fault = "push"
    THEN /\ ret' = Outcome("enable", args, "RuntimeError",
                           "Failed to inject runtype decorator", <<>>, "")
         /\ UNCHANGED <<ast_transformers, ip_attrs, user_ns>>
    ELSE IF fault = "append"
    THEN /\ ret' = failed
         /\ user_ns' = RemoveFromNamespace(pushed)
         /\ UNCHANGED <<ast_transformers, ip_attrs>>
    ELSE IF fault = "setattr_enabled"
    THEN /\ Len(ast_transformers) < MaxTransformers
         /\ ret' = failed
         /\ ast_transformers' = appended
         /\ user_ns' = RemoveFromNamespace(pushed)
         /\ UNCHANGED ip_attrs
    ELSE IF fault = "setattr_config"
    THEN /\ Len(ast_transformers) < MaxTransformers
         /\ ret' = failed
         /\ ast_transformers' = appended
         /\ ip_attrs' = flagged
         /\ user_ns' = RemoveFromNamespace(pushed)
    ELSE /\ Len(ast_transformers) < MaxTransformers
         /\ ret' = Outcome("enable", args, "None", "", <<>>,
                           "runtype enabled with config")
         /\ ast_transformers' = appended
         /\ ip_attrs' = stored
         /\ user_ns' = pushed

\* Mutant of AlreadyEnabled: the notice is printed but the new configuration
\* is stored over the old one.
AlreadyEnabled_Overwrites(args) ==
    /\ ret' = Outcome("enable", args, "None", "", <<>>,
                      "runtype already enabled.")
    /\ ip_attrs' = DictSet(ip_attrs, _RUNTYPE_CONFIG,
                           ConfigDict(args[1], args[2], args[3], args[4]))
    /\ UNCHANGED <<ast_transformers, user_ns>>

\* Lines 112-114: the host is already enabled; print the notice and return.
AlreadyEnabled(args) ==
    /\ ret' = Outcome("enable", args, "None", "", <<>>,
                      "runtype already enabled.")
    /\ UNCHANGED <<ast_transformers, ip_attrs, user_ns>>

\* enable_runtype(strict=args[1], validate_return=args[2],
\* validate_default=args[3], arbitrary_types_allowed=args[4]).
enable_runtype(args) ==
    /\ UNCHANGED <<ipython, node, visits, wrapped>>
    /\ IF ~AllBool(args)
       THEN /\ ret' = Outcome("enable", args, "TypeError",
                              "All parameters must be boolean values", <<>>, "")
            /\ UNCHANGED <<ast_transformers, ip_attrs, user_ns>>
       ELSE IF ipython = "None"
       THEN /\ ret' = HostMissing("enable", args)
            /\ UNCHANGED <<ast_transformers, ip_attrs, user_ns>>
       ELSE IF _is_runtype_enabled
       THEN AlreadyEnabled(args)
       ELSE \E fault \in Faults : Install(args, fault)

-----------------------------------------------------------------------------
(* disable_runtype                                                         *)

\* The position of the first RuntypeASTDecorator instance at or after i.
RECURSIVE FirstRuntypeFrom(_, _)
FirstRuntypeFrom(transformers, i) ==
    IF i > Len(transformers) THEN 0
    ELSE IF transformers[i] = RuntypeASTDecorator THEN i
    ELSE FirstRuntypeFrom(transformers, i + 1)

\* Mutant of WithoutRuntype: list.remove semantics, only the first instance
\* is taken out.
WithoutRuntype_FirstOnly(transformers) ==
    LET i == FirstRuntypeFrom(transformers, 1) IN
    IF i = 0 THEN transformers
    ELSE SubSeq(transformers, 1, i - 1)
         \o SubSeq(transformers, i + 1, Len(transformers))

\* [t for t in ip.ast_transformers if not isinstance(t, RuntypeASTDecorator)]
WithoutRuntype(transformers) ==
    SelectSeq(transformers, LAMBDA t : t # RuntypeASTDecorator)

\* Mutant of DelAttrIfPresent: the attribute is left in place.
DelAttrIfPresent_Keeps(attrs, name) == attrs

\* delattr(ip, name) if hasattr(ip, name)
DelAttrIfPresent(attrs, name) ==
    IF name \in DOMAIN attrs THEN DictDel(attrs, name) ELSE attrs

\* Mutant of NotEnabled: the return is missing and the clean-up below runs.
NotEnabled_CleansUp ==
    /\ ret' = Outcome("disable", <<>>, "None", "", <<>>,
                      "runtype is not enabled.")
    /\ ast_transformers' = WithoutRuntype(ast_transformers)
    /\ ip_attrs' = DelAttrIfPresent(
                       DelAttrIfPresent(ip_attrs, _RUNTYPE_ENABLED),
                       _RUNTYPE_CONFIG)
    /\ user_ns' = RemoveFromNamespace(user_ns)

\* Lines 198-200: the host is not enabled; print the notice and return.
NotEnabled ==
    /\ ret' = Outcome("disable", <<>>, "None", "", <<>>,
                      "runtype is not enabled.")
    /\ UNCHANGED <<ast_transformers, ip_attrs, user_ns>>

\* Lines 202-216: remove the transformers, the two attributes and the
\* namespace entry.
Uninstall ==
    /\ ret' = Outcome("disable", <<>>, "None", "", <<>>, "runtype disabled.")
    /\ ast_transformers' = WithoutRuntype(ast_transformers)
    /\ ip_attrs' = DelAttrIfPresent(
                       DelAttrIfPresent(ip_attrs, _RUNTYPE_ENABLED),
                       _RUNTYPE_CONFIG)
    /\ user_ns' = RemoveFromNamespace(user_ns)

disable_runtype ==
    /\ UNCHANGED <<ipython, node, visits, wrapped>>
    /\ IF ipython = "None"
       THEN /\ ret' = HostMissing("disable", <<>>)
            /\ UNCHANGED <<ast_transformers, ip_attrs, user_ns>>
       ELSE IF ~_is_runtype_enabled
       THEN NotEnabled
       ELSE Uninstall

-----------------------------------------------------------------------------
(* is_runtype_enabled and get_runtype_config                               *)

\* What is_runtype_enabled() returns in the current state.
IsEnabledResult ==
    IF ipython = "None"
    THEN Outcome("is_enabled", <<>>, "None", "", <<"False">>, "")
    ELSE Outcome("is_enabled", <<>>, "None", "",
                 <<IF _is_runtype_enabled THEN "True" ELSE "False">>, "")

is_runtype_enabled ==
    /\ ret' = IsEnabledResult
    /\ UNCHANGED <<session, node, visits, wrapped>>

\* What get_runtype_config() does in the current state: it raises when the
\* enabled attribute is absent, else returns getattr(ip, _RUNTYPE_CONFIG, {}).
GetConfigResult ==
    IF ipython = "None"
    THEN HostMissing("get_config", <<>>)
    ELSE IF ~_is_runtype_enabled
    THEN Outcome("get_config", <<>>, "RuntimeError", "runtype is not enabled.",
                 <<>>, "")
    ELSE Outcome("get_config", <<>>, "None", "",
                 <<IF _RUNTYPE_CONFIG \in DOMAIN ip_attrs
                   THEN ip_attrs[_RUNTYPE_CONFIG] ELSE EmptyDict>>, "")

get_runtype_config ==
    /\ ret' = GetConfigResult
    /\ UNCHANGED <<session, node, visits, wrapped>>

-----------------------------------------------------------------------------
(* The session specification: any sequence of the four session operations, *)
(* with any flag arguments and any host fault, on any fresh host.          *)

NoNode == [type |-> "None", decorator_list |-> <<>>, body |-> <<>>]

\* No cell is being executed, and the user's code holds nothing yet.  cell
\* is the list of statements of the current cell still to execute,
\* parsed_enabled whether the session was installed when that cell was parsed,
\* held whether the user's name cfg is bound to the stored configuration
\* dict, shares whether the closure of the wrapper bound to f holds that
\* same dict, enabled_with the flags of the enable_runtype call that
\* installed the session (none when not installed), and wrapped_with the
\* flags the session was installed with when the wrapper bound to f was made.
NoNotebook ==
    [cell |-> <<>>, parsed_enabled |-> FALSE, held |-> FALSE, shares |-> FALSE,
     enabled_with |-> <<>>, wrapped_with |-> <<>>]

Init ==
    /\ ipython \in {"None", "InteractiveShell"}
    /\ ast_transformers \in HostTransformerLists
    /\ ip_attrs = EmptyDict
    /\ user_ns = EmptyDict
    /\ ret = NoCall
    /\ node = NoNode
    /\ visits = 0
    /\ wrapped = EmptyDict
    /\ notebook = NoNotebook

EnableCall ==
    \E args \in [1..4 -> FlagValues] : enable_runtype(args)

\* The session operations called from outside any cell leave the notebook
\* as it is.
Next ==
    \/ EnableCall /\ UNCHANGED notebook
    \/ disable_runtype /\ UNCHANGED notebook
    \/ is_runtype_enabled /\ UNCHANGED notebook
    \/ get_runtype_config /\ UNCHANGED notebook

Spec == Init /\ [][Next]_vars

-----------------------------------------------------------------------------
(* RuntypeASTDecorator.  An AST node is a record of its class name (type),  *)
(* its decorator_list and its body; body lists the statements of the node  *)
(* that are definitions or compound statements.  A decorator expression is *)
(* a record of its class name and its fields: ast.Name has id, the other   *)
(* expression classes do not.                                              *)

\* ast.Name(id=_RUNTYPE_WRAPPER, ctx=ast.Load())
MarkerName == [type |-> "Name", id |-> _RUNTYPE_WRAPPER]

\* The decorator expressions a cell may hold: the marker as a plain name,
\* the exclusion marker, the marker name as an attribute of a module, and a
\* call of some other decorator.
Decorators ==
    {MarkerName,
     [type |-> "Name", id |-> "no_runtype"],
     [type |-> "Attribute", attr |-> _RUNTYPE_WRAPPER],
     [type |-> "Call", func |-> "lru_cache"]}

\* getattr(deco, "id", None)
GetId(deco) == IF "id" \in DOMAIN deco THEN deco.id ELSE "None"

\* The for/else scan of lines 45-47: some decorator has id _RUNTYPE_WRAPPER.
HasMarker(decorator_list) ==
    \E i \in 1..Len(decorator_list) :
        GetId(decorator_list[i]) = _RUNTYPE_WRAPPER

\* Mutant of visit_FunctionDef: only the first decorator is looked at.
visit_FunctionDef_FirstOnly(n) ==
    IF Len(n.decorator_list) > 0 /\ GetId(n.decorator_list[1]) = _RUNTYPE_WRAPPER
    THEN n
    ELSE [n EXCEPT !.decorator_list = <<MarkerName>> \o @]

\* A visit that puts the marker after the decorators the source has.
visit_FunctionDef_AppendsLast(n) ==
    IF HasMarker(n.decorator_list)
    THEN n
    ELSE [n EXCEPT !.decorator_list = @ \o <<MarkerName>>]

\* RuntypeASTDecorator.visit_FunctionDef: insert the marker at position 0
\* unless the scan finds it; the body is not visited.
visit_FunctionDef(n) ==
    IF HasMarker(n.decorator_list)
    THEN n
    ELSE [n EXCEPT !.decorator_list = <<MarkerName>> \o @]

\* RuntypeASTDecorator.visit_AsyncFunctionDef: the same, for async def.
visit_AsyncFunctionDef(n) ==
    IF HasMarker(n.decorator_list)
    THEN n
    ELSE [n EXCEPT !.decorator_list = <<MarkerName>> \o @]

\* ast.NodeTransformer.visit: dispatch on the class name to visit_<class>,
\* else generic_visit, which visits each child statement and keeps the result.
RECURSIVE visit(_)
visit(n) ==
    IF n.type = "FunctionDef" THEN visit_FunctionDef(n)
    ELSE IF n.type = "AsyncFunctionDef" THEN visit_AsyncFunctionDef(n)
    ELSE [n EXCEPT !.body = [i \in 1..Len(n.body) |-> visit(n.body[i])]]

\* The host's pass over a parsed cell: each registered transformer visits
\* the tree in list order.  The other transformers return it as it is.
RECURSIVE transform_ast(_, _)
transform_ast(transformers, tree) ==
    IF transformers = <<>> THEN tree
    ELSE transform_ast(Tail(transformers),
                       IF Head(transformers) = RuntypeASTDecorator
                       THEN visit(tree) ELSE tree)

\* The host parses a cell and runs the registered transformers over it.
run_cell(cell) ==
    /\ ipython # "None"
    /\ ret' = Outcome("run_cell", <<cell>>, "None", "",
                      <<transform_ast(ast_transformers, cell)>>, "")
    /\ UNCHANGED <<session, node, visits, wrapped>>

-----------------------------------------------------------------------------
(* The cells a user submits.                                               *)

\* The deepest nesting of definitions inside a top-level statement.
MaxNesting == 2

Node(type, decorator_list, body) ==
    [type |-> type, decorator_list |-> decorator_list, body |-> body]

\* Statements that hold no further definition: def, async def (bare or under
\* the exclusion marker), an empty class and an if block.
LeafStatements ==
    {Node(t, d, <<>>) :
        t \in {"FunctionDef", "AsyncFunctionDef"},
        d \in {<<>>, <<[type |-> "Name", id |-> "no_runtype"]>>}}
    \cup {Node("ClassDef", <<>>, <<>>), Node("If", <<>>, <<>>)}

\* Statements nested at most d deep: a def, async def, class or if block
\* around a statement nested at most d - 1 deep.
RECURSIVE Statements(_)
Statements(d) ==
    IF d = 0 THEN LeafStatements
    ELSE LeafStatements \cup
         {Node(t, <<>>, <<c>>) :
             t \in {"FunctionDef", "AsyncFunctionDef", "ClassDef", "If"},
             c \in Statements(d - 1)}

\* A cell is a Module of one statement, or of two leaf statements.
Cells ==
    {Node("Module", <<>>, <<c>>) : c \in Statements(MaxNesting)}
    \cup {Node("Module", <<>>, <<a, b>>) : a, b \in LeafStatements}

\* enable_runtype() with the default arguments of lines 81-84.
DefaultArgs == <<"True", "True", "True", "True">>

EnableDefault == enable_runtype(DefaultArgs)

RunCell == \E cell \in Cells : run_cell(cell)

NextCell ==
    \/ EnableDefault /\ UNCHANGED notebook
    \/ disable_runtype /\ UNCHANGED notebook
    \/ RunCell /\ UNCHANGED notebook

\* Sessions of enable(), disable() and parsed cells.
SpecCell == Init /\ [][NextCell]_vars

-----------------------------------------------------------------------------
(* One function-definition node under repeated visits.                     *)

\* The longest decorator list a definition is written with.
MaxDecorators == 2

\* How many times a node is visited.
MaxVisits == 3

RECURSIVE SeqsUpTo(_, _)
SeqsUpTo(S, n) ==
    IF n = 0 THEN {<<>>}
    ELSE SeqsUpTo(S, n - 1) \cup
         {Append(q, x) : q \in SeqsUpTo(S, n - 1), x \in S}

\* The session enable_runtype(args) leaves on a fresh host with no other
\* transformer: see Install.
EnabledSession(args) ==
    LET config == ConfigDict(args[1], args[2], args[3], args[4]) IN
    /\ ipython = "InteractiveShell"
    /\ ast_transformers = <<RuntypeASTDecorator>>
    /\ ip_attrs = DictSet(DictSet(EmptyDict, _RUNTYPE_ENABLED, "True"),
                          _RUNTYPE_CONFIG, config)
    /\ user_ns = DictSet(EmptyDict, _RUNTYPE_WRAPPER, Closure(config, args[2]))

InitTransform ==
    /\ EnabledSession(DefaultArgs)
    /\ ret = NoCall
    /\ node \in {Node(t, d, <<>>) :
                    t \in {"FunctionDef", "AsyncFunctionDef"},
                    d \in SeqsUpTo(Decorators, MaxDecorators)}
    /\ visits = 0
    /\ wrapped = EmptyDict
    /\ notebook = NoNotebook

\* A RuntypeASTDecorator instance visits the node (again).
VisitNode ==
    /\ visits < MaxVisits
    /\ node' = visit(node)
    /\ visits' = visits + 1
    /\ UNCHANGED <<session, ret, wrapped, notebook>>

SpecTransform == InitTransform /\ [][VisitNode]_vars

-----------------------------------------------------------------------------
(* The _runtype decorator and the wrappers it returns.  A user function is *)
(* a record: type ("function" or "coroutine function"), attrs (the         *)
(* attributes set on the function object), params (its parameters, each    *)
(* annotated int), schema (whether a validator can be built for its        *)
(* annotations: "ok", "arbitrary" when it needs arbitrary_types_allowed,   *)
(* "unbuildable" when it never can) and body (what running it does).       *)

\* The most parameters a user function takes.
MaxParams == 2

ParamNames == <<"x", "y", "z", "u", "v", "w">>

\* Argument and return values: the int 1, the str '1' (an int in lax mode
\* only) and the str 'a'.
ArgValues == {"1", "'1'", "'a'"}

\* An exception object: its class, its message (a list of lines), and for
\* RuntypeError and ValidationError the error descriptors; original is the
\* list of zero or one exception kept as original_exception.
Exc(type, message, errors, original) ==
    [type |-> type, message |-> message, errors |-> errors,
     original_exception |-> original]

\* The exceptions a function body raises by itself.
BodyExceptions ==
    {Exc("ValueError", <<[text |-> "boom"]>>, <<>>, <<>>),
     Exc("KeyboardInterrupt", <<>>, <<>>, <<>>),
     Exc("ValidationError", <<[text |-> "1 validation error for Model"]>>,
         <<[loc |-> <<"field">>, msg |-> "Field required", input |-> "{}"]>>,
         <<>>),
     Exc("PydanticSchemaGenerationError",
         <<[text |-> "Unable to generate pydantic-core schema for Model"]>>,
         <<>>, <<>>)}

\* What running the body does: return a value or raise.
Bodies ==
    {[kind |-> "return", value |-> v, exc |-> <<>>] : v \in ArgValues}
    \cup {[kind |-> "raise", value |-> "None", exc |-> <<e>>] :
             e \in BodyExceptions}

Functions ==
    {[type |-> t, attrs |-> a, params |-> SubSeq(ParamNames, 1, n),
      schema |-> sc, body |-> b] :
        t \in {"function", "coroutine function"},
        a \in {{}, {_RUNTYPE_EXCLUSION}},
        n \in 1..MaxParams,
        sc \in {"ok", "arbitrary", "unbuildable"},
        b \in Bodies}

\* The result of running a callable: a value returned or an exception raised.
Returned(v) == [kind |-> "return", value |-> <<v>>, exc |-> <<>>]

Raised(e) == [kind |-> "raise", value |-> <<>>, exc |-> <<e>>]

\* Calling the plain function: its body runs on whatever it is given.
CallFunction(func, callargs) ==
    IF func.body.kind = "raise" THEN Raised(func.body.exc[1])
    ELSE Returned(func.body.value)

\* pydantic: a value passes for int if it is an int, or in lax mode a str
\* of digits.
ValidInt(v, strict) == v = "1" \/ (v = "'1'" /\ strict = "False")

\* pydantic: what validation hands on for a value that passed.
Coerce(v) == IF v = "'1'" THEN "1" ELSE v

\* pydantic: building the validator fails for annotations it has no schema
\* for.
SchemaFails(func, config) ==
    \/ func.schema = "unbuildable"
    \/ func.schema = "arbitrary" /\ config.arbitrary_types_allowed = "False"

\* pydantic: one error descriptor per argument that does not pass, in
\* parameter order.
ArgErrors(func, config, callargs) ==
    LET all == [i \in 1..Len(func.params) |->
                   [loc |-> <<func.params[i]>>,
                    msg |-> "Input should be a valid integer",
                    input |-> callargs[i]]]
    IN SelectSeq(all, LAMBDA d : ~ValidInt(d.input, config.strict))

\* get_validated_func() and the call of its result, lines 130-131 and 157:
\* validate_call(config=config, validate_return=validate_return)(func)
\* builds the validator, validates the arguments, runs the body and, when
\* asked to, validates the value returned.
ValidatedCall(func, closure, callargs) ==
    LET errors == ArgErrors(func, closure.config, callargs)
        ran == CallFunction(func, callargs)
    IN
    IF SchemaFails(func, closure.config)
    THEN Raised(Exc("PydanticSchemaGenerationError",
                    <<[text |-> "Unable to generate pydantic-core schema"]>>,
                    <<>>, <<>>))
    ELSE IF errors # <<>>
    THEN Raised(Exc("ValidationError",
                    <<[text |-> "validation error for function"]>>,
                    errors, <<>>))
    ELSE IF ran.kind = "raise"
    THEN ran
    ELSE IF closure.validate_return = "True"
    THEN IF ValidInt(ran.value[1], closure.config.strict)
         THEN Returned(Coerce(ran.value[1]))
         ELSE Raised(Exc("ValidationError",
                         <<[text |-> "validation error for function"]>>,
                         <<[loc |-> <<>>,
                            msg |-> "Input should be a valid integer",
                            input |-> ran.value[1]]>>,
                         <<>>))
    ELSE ran

\* RuntypeError._format_errors: the header line and one line per error;
\* a descriptor without loc, msg or input gets the defaults.
_format_errors(errors) ==
    <<[text |-> "Runtime type validation failed:"]>>
    \o [i \in 1..Len(errors) |->
           LET err == errors[i]
               loc == IF "loc" \in DOMAIN err THEN err.loc ELSE <<>>
               msg == IF "msg" \in DOMAIN err THEN err.msg ELSE "Invalid value"
               value == IF "input" \in DOMAIN err THEN err.input ELSE "None"
           IN IF loc # <<>>
              THEN [parameter |-> loc, msg |-> msg, value |-> value]
              ELSE [msg |-> msg, value |-> value]]

\* A RuntypeError that keeps no reference to the exception it came from.
RuntypeError_NoOriginal(errors, e) ==
    Exc("RuntypeError", _format_errors(errors), errors, <<>>)

\* RuntypeError(errors, original_exception=e)
RuntypeError(errors, e) ==
    Exc("RuntypeError", _format_errors(errors), errors, <<e>>)

\* The body of wrapper (lines 154-166): call the validated function inside
\* try; ValidationError and PydanticSchemaGenerationError become
\* RuntypeError, anything else is raised again as it is.
WrapperCall(w, callargs) ==
    LET r == ValidatedCall(w.wraps, w.closure, callargs) IN
    IF r.kind = "return" THEN r
    ELSE IF r.exc[1].type = "ValidationError"
    THEN Raised(RuntypeError(r.exc[1].errors, r.exc[1]))
    ELSE IF r.exc[1].type = "PydanticSchemaGenerationError"
    THEN Raised(RuntypeError(<<[msg |-> "Failed to generate Pydantic schema"]>>,
                             r.exc[1]))
    ELSE r

\* An async wrapper with a single except clause, for ValidationError.
AsyncWrapperCall_OneClause(w, callargs) ==
    LET r == ValidatedCall(w.wraps, w.closure, callargs) IN
    IF r.kind = "return" THEN r
    ELSE IF r.exc[1].type = "ValidationError"
    THEN Raised(RuntypeError(r.exc[1].errors, r.exc[1]))
    ELSE r

\* The body of async_wrapper (lines 136-148), awaited to its end: build the
\* validated coroutine function and await its call inside try, under the
\* three except clauses of lines 141-148.
AsyncWrapperCall(w, callargs) ==
    LET validated == ValidatedCall(w.wraps, w.closure, callargs) IN
    CASE validated.kind = "return" -> validated
      [] validated.kind = "raise"
           /\ validated.exc[1].type = "ValidationError" ->
             Raised(RuntypeError(validated.exc[1].errors, validated.exc[1]))
      [] validated.kind = "raise"
           /\ validated.exc[1].type = "PydanticSchemaGenerationError" ->
             Raised(RuntypeError(
                        <<[msg |-> "Failed to generate Pydantic schema"]>>,
                        validated.exc[1]))
      [] OTHER -> validated

\* A decorator that builds the validated function when it is applied, and
\* has no wrapper to give when that fails.
_runtype_Eager(closure, func) ==
    IF _RUNTYPE_EXCLUSION \in func.attrs THEN func
    ELSE IF SchemaFails(func, closure.config)
    THEN [type |-> "raised", params |-> func.params, attrs |-> {},
          body |-> [kind |-> "raise", value |-> "None",
                    exc |-> <<Exc("PydanticSchemaGenerationError",
                                  <<>>, <<>>, <<>>)>>]]
    ELSE [type |-> func.type, wraps |-> func, closure |-> closure,
          attrs |-> func.attrs]

\* A decorator that wraps whatever it is given.
_runtype_IgnoresExclusion(closure, func) ==
    [type |-> func.type, wraps |-> func, closure |-> closure,
     attrs |-> func.attrs]

\* _runtype(func), lines 125-168: func itself when it carries the exclusion
\* attribute, else async_wrapper for a coroutine function and wrapper for
\* any other; functools.wraps gives the wrapper the attributes of func.
_runtype(closure, func) ==
    IF _RUNTYPE_EXCLUSION \in func.attrs THEN func
    ELSE [type |-> func.type, wraps |-> func, closure |-> closure,
          attrs |-> func.attrs]

IsWrapper(f) == "wraps" \in DOMAIN f

\* The parameters a callable shows: functools.wraps gives a wrapper those of
\* the function it wraps.
Params(f) == IF IsWrapper(f) THEN f.wraps.params ELSE f.params

\* Calling (and, for a coroutine function, awaiting) a callable.
CallResult(f, callargs) ==
    IF ~IsWrapper(f) THEN CallFunction(f, callargs)
    ELSE IF f.type = "coroutine function" THEN AsyncWrapperCall(f, callargs)
    ELSE WrapperCall(f, callargs)

\* The user calls the callable under call with positional arguments.
call_wrapped(callargs) ==
    LET r == CallResult(wrapped, callargs) IN
    /\ ret' = [op |-> IF wrapped.type = "coroutine function"
                      THEN "await" ELSE "call",
               args |-> callargs,
               raised |-> IF r.kind = "raise" THEN r.exc[1].type ELSE "None",
               msg |-> "", value |-> r.value, printed |-> "", exc |-> r.exc]
    /\ UNCHANGED <<session, node, visits, wrapped>>

\* The flag tuples enable_runtype accepts.
BoolArgs == [1..4 -> {"True", "False"}]

\* A session enabled with some flags, and a function defined in it: the
\* name is bound to what the closure in the namespace returns for it.
InitCall ==
    /\ \E args \in BoolArgs : EnabledSession(args)
    /\ ret = NoCall
    /\ node = NoNode
    /\ visits = 0
    /\ notebook = NoNotebook
    /\ wrapped \in {_runtype(user_ns[_RUNTYPE_WRAPPER], f) : f \in Functions}

CallWrapped ==
    /\ UNCHANGED notebook
    /\ \E callargs \in [1..Len(Params(wrapped)) -> ArgValues] :
          call_wrapped(callargs)

SpecCall == InitCall /\ [][CallWrapped]_vars

-----------------------------------------------------------------------------
(* The notebook: the host parses a whole cell, runs the registered         *)
(* transformers over it, and then executes its statements one after the    *)
(* other.  The statements followed are calls of enable_runtype and         *)
(* disable_runtype, the definition of a function f, a call of f,           *)
(* cfg = get_runtype_config(), and cfg[key] = value.                       *)

\* The most statements in a cell.
MaxCellLen == 2

\* An expression statement that calls the named function.
Stmt(call, args) ==
    [type |-> "Expr", decorator_list |-> <<>>, body |-> <<>>,
     call |-> call, args |-> args]

\* def f(x: int): return 1, with annotations the engine has a schema for or
\* not.
NotebookFunctions ==
    {[type |-> "function", attrs |-> {}, params |-> <<"x">>, schema |-> sc,
      body |-> [kind |-> "return", value |-> "1", exc |-> <<>>]] :
        sc \in {"ok", "unbuildable"}}

\* The flag tuples the cells pass to enable_runtype: the defaults, and lax
\* validation without validation of the value returned.
NotebookArgs == {DefaultArgs, <<"False", "False", "True", "True">>}

SessionStatements ==
    {Stmt("enable_runtype", a) : a \in NotebookArgs}
    \cup {Stmt("disable_runtype", <<>>)}

\* The definition of f, bare or under @no_runtype, and the other statements.
UserStatements ==
    {[type |-> "FunctionDef", decorator_list |-> d, body |-> <<>>,
      func |-> f] :
        d \in {<<>>, <<[type |-> "Name", id |-> "no_runtype"]>>},
        f \in NotebookFunctions}
    \cup {Stmt("f", <<v>>) : v \in ArgValues}
    \cup {Stmt("get_runtype_config", <<>>)}
    \cup {Stmt("cfg.__setitem__", <<k, v>>) :
             k \in {"strict", "arbitrary_types_allowed"},
             v \in {"True", "False"}}

\* A cell: session calls followed by one more statement.
NotebookCells ==
    {Node("Module", <<>>, pre \o <<s>>) :
        pre \in SeqsUpTo(SessionStatements, MaxCellLen - 1),
        s \in SessionStatements \cup UserStatements}

\* no_runtype(func), lines 251-260: set the exclusion attribute on func and
\* return func.
no_runtype(func) == [func EXCEPT !.attrs = @ \cup {_RUNTYPE_EXCLUSION}]

\* One decorator applied to a callable: the name _runtype is the closure
\* bound in the namespace, the name no_runtype the imported no_runtype.
ApplyDecorator(deco, f) ==
    IF GetId(deco) = _RUNTYPE_WRAPPER
    THEN _runtype(user_ns[_RUNTYPE_WRAPPER], f)
    ELSE IF GetId(deco) = "no_runtype" THEN no_runtype(f)
    ELSE f

\* Python applies the decorators of a definition from the last to the first.
RECURSIVE ApplyDecorators(_, _)
ApplyDecorators(decorator_list, f) ==
    IF decorator_list = <<>> THEN f
    ELSE ApplyDecorator(Head(decorator_list),
                        ApplyDecorators(Tail(decorator_list), f))

\* The statements left after the one that ended as r: an exception ends
\* the cell.
Rest(r) == IF r.raised # "None" THEN <<>> ELSE Tail(notebook.cell)

\* The statement to execute next is a call of the named function.
NextIsCall(call) ==
    /\ notebook.cell # <<>>
    /\ Head(notebook.cell).type = "Expr"
    /\ Head(notebook.cell).call = call

\* The host takes a cell when the one before has ended: it is parsed and
\* transformed as a whole, in the state of the session at that moment.
submit_cell(cell) ==
    /\ notebook.cell = <<>>
    /\ run_cell(cell)
    /\ notebook' = [notebook EXCEPT
                      !.cell = transform_ast(ast_transformers, cell).body,
                      !.parsed_enabled = (notebook.enabled_with # <<>>)]

SubmitCell == \E cell \in NotebookCells : submit_cell(cell)

\* The cell calls enable_runtype.  An enable that installs stores a new
\* dict and binds a new closure.
exec_enable ==
    /\ NextIsCall("enable_runtype")
    /\ enable_runtype(Head(notebook.cell).args)
    /\ notebook' =
         IF ret'.printed = "runtype enabled with config"
         THEN [notebook EXCEPT !.cell = Rest(ret'),
                               !.held = FALSE, !.shares = FALSE,
                               !.enabled_with = ret'.args]
         ELSE [notebook EXCEPT !.cell = Rest(ret')]

\* The cell calls disable_runtype.
exec_disable ==
    /\ NextIsCall("disable_runtype")
    /\ disable_runtype
    /\ notebook' =
         IF ret'.printed = "runtype disabled."
         THEN [notebook EXCEPT !.cell = Rest(ret'),
                               !.held = FALSE, !.shares = FALSE,
                               !.enabled_with = <<>>]
         ELSE [notebook EXCEPT !.cell = Rest(ret')]

\* The cell executes the definition of f: the decorator names are looked
\* up in the namespace, the decorators applied, and f bound to the result.
exec_def ==
    /\ notebook.cell # <<>>
    /\ Head(notebook.cell).type \in {"FunctionDef", "AsyncFunctionDef"}
    /\ LET stmt == Head(notebook.cell) IN
       IF HasMarker(stmt.decorator_list)
          /\ _RUNTYPE_WRAPPER \notin DOMAIN user_ns
       THEN /\ ret' = Outcome("def", <<stmt>>, "NameError",
                              "name '_runtype' is not defined", <<>>, "")
            /\ notebook' = [notebook EXCEPT !.cell = <<>>]
            /\ UNCHANGED wrapped
       ELSE /\ ret' = Outcome("def", <<stmt>>, "None", "", <<>>, "")
            /\ wrapped' = ApplyDecorators(stmt.decorator_list, stmt.func)
            /\ notebook' = [notebook EXCEPT
                              !.cell = Tail(@),
                              !.shares = IsWrapper(wrapped'),
                              !.wrapped_with = IF IsWrapper(wrapped')
                                               THEN notebook.enabled_with
                                               ELSE <<>>]
    /\ UNCHANGED <<session, node, visits>>

\* The cell calls f.
exec_call ==
    /\ NextIsCall("f")
    /\ IF wrapped = EmptyDict
       THEN /\ ret' = Outcome("call", Head(notebook.cell).args, "NameError",
                              "name 'f' is not defined", <<>>, "")
            /\ UNCHANGED <<session, node, visits, wrapped>>
       ELSE call_wrapped(Head(notebook.cell).args)
    /\ notebook' = [notebook EXCEPT !.cell = Rest(ret')]

\* The cell executes cfg = get_runtype_config(): line 248 returns the dict
\* stored on ip itself when there is one, and a new empty dict when not.
exec_get_config ==
    /\ NextIsCall("get_runtype_config")
    /\ get_runtype_config
    /\ notebook' = [notebook EXCEPT
                      !.cell = Rest(ret'),
                      !.held = IF ret'.raised = "None"
                               THEN _RUNTYPE_CONFIG \in DOMAIN ip_attrs
                               ELSE @]

\* The cell executes cfg[key] = value.  When cfg is the stored dict, that
\* is the dict line 180 stored, the dict the closure bound at line 171
\* reads as config at line 131, and so the dict every wrapper that closure
\* made reads; any other dict is not followed.
exec_setitem ==
    /\ NextIsCall("cfg.__setitem__")
    /\ LET key == Head(notebook.cell).args[1]
           value == Head(notebook.cell).args[2]
       IN
       /\ ret' = Outcome("setitem", <<key, value>>, "None", "", <<>>, "")
       /\ IF notebook.held
          THEN /\ ip_attrs' = [ip_attrs EXCEPT ![_RUNTYPE_CONFIG][key] = value]
               /\ user_ns' = [user_ns EXCEPT
                                ![_RUNTYPE_WRAPPER].config[key] = value]
               /\ wrapped' = IF notebook.shares
                             THEN [wrapped EXCEPT !.closure.config[key] = value]
                             ELSE wrapped
          ELSE UNCHANGED <<ip_attrs, user_ns, wrapped>>
    /\ notebook' = [notebook EXCEPT !.cell = Tail(@)]
    /\ UNCHANGED <<ipython, ast_transformers, node, visits>>

InitNotebook ==
    /\ Init
    /\ ipython = "InteractiveShell"

NextNotebook ==
    \/ SubmitCell
    \/ exec_enable
    \/ exec_disable
    \/ exec_def
    \/ exec_call
    \/ exec_get_config
    \/ exec_setitem

\* Sessions of cells, each executed to its end before the next is parsed.
SpecNotebook == InitNotebook /\ [][NextNotebook]_vars

-----------------------------------------------------------------------------
(* Properties of session control, checked under Spec.                      *)

\* The number of RuntypeASTDecorator instances in a transformer list.
CountRuntype(transformers) ==
    Cardinality({i \in 1..Len(transformers) :
                    transformers[i] = RuntypeASTDecorator})

\* A host exists and the last call was an enable_runtype that installed.
EnableSucceeded ==
    /\ ret.op = "enable"
    /\ ret.raised = "None"
    /\ ret.printed = "runtype enabled with config"

\* C1: in the state a successful enable(c) leaves, reached from any disabled
\* state after any earlier calls, get_config() returns a mapping whose four
\* flags are exactly those of c.
C1_EnableThenGetConfig ==
    EnableSucceeded =>
        /\ GetConfigResult.raised = "None"
        /\ Len(GetConfigResult.value) = 1
        /\ DOMAIN GetConfigResult.value[1] =
               {"strict", "validate_return", "validate_default",
                "arbitrary_types_allowed"}
        /\ GetConfigResult.value[1].strict = ret.args[1]
        /\ GetConfigResult.value[1].validate_return = ret.args[2]
        /\ GetConfigResult.value[1].validate_default = ret.args[3]
        /\ GetConfigResult.value[1].arbitrary_types_allowed = ret.args[4]

\* C1 witness: a successful enable with mixed flags on a host that an earlier
\* failed enable left a transformer on.
C1_Witness ==
    /\ EnableSucceeded
    /\ ret.args = <<"False", "True", "False", "True">>
    /\ CountRuntype(ast_transformers) = 2
    /\ GetConfigResult.raised = "None"

\* C2: enable() with boolean flags on an enabled host returns normally and
\* changes nothing: the stored configuration, the transformer list and the
\* namespace entry are those from before the call.
C2_EnableWhenEnabledIsNoOp ==
    [][(/\ ipython # "None"
        /\ _is_runtype_enabled
        /\ ret'.op = "enable"
        /\ \A i \in 1..4 : ret'.args[i] \in {"True", "False"})
       => (/\ ret'.raised = "None"
           /\ ip_attrs' = ip_attrs
           /\ ast_transformers' = ast_transformers
           /\ user_ns' = user_ns)]_vars

\* C2 witness: a second enable with other flags than the stored ones has
\* returned; one transformer instance is registered.
C2_Witness ==
    /\ ret.op = "enable"
    /\ ret.printed = "runtype already enabled."
    /\ _RUNTYPE_CONFIG \in DOMAIN ip_attrs
    /\ ip_attrs[_RUNTYPE_CONFIG].strict = "True"
    /\ ret.args[1] = "False"
    /\ CountRuntype(ast_transformers) = 1
    /\ _RUNTYPE_WRAPPER \in DOMAIN user_ns

\* C3 (as claimed): whenever enable() has failed in the host, the reserved
\* namespace entry is absent, the session is disabled and the transformer
\* list holds no RuntypeASTDecorator instance.
C3_FailedEnableLeavesNothing ==
    (/\ ipython # "None"
     /\ ret.op = "enable"
     /\ ret.raised = "RuntimeError")
    => (/\ _RUNTYPE_WRAPPER \notin DOMAIN user_ns
        /\ ~_is_runtype_enabled
        /\ IsEnabledResult.value = <<"False">>
        /\ CountRuntype(ast_transformers) = 0)

\* C4: on a host whose enabled attribute is absent, and in particular right
\* after a disable() that returned, get_config() raises the not-enabled
\* RuntimeError and returns nothing, so no earlier configuration.
C4_GetConfigWhenDisabledRaises ==
    (/\ ipython # "None"
     /\ \/ ~_is_runtype_enabled
        \/ ret.op = "disable" /\ ret.raised = "None")
    => (/\ GetConfigResult.raised = "RuntimeError"
        /\ GetConfigResult.msg = "runtype is not enabled."
        /\ GetConfigResult.value = <<>>
        /\ (ret.op = "get_config" => ret = GetConfigResult))

\* C4 witness: disable() has just taken an enabled host down.
C4_Witness ==
    /\ ret.op = "disable"
    /\ ret.printed = "runtype disabled."
    /\ GetConfigResult.raised = "RuntimeError"

\* C5: disable() on an enabled host leaves the transformer list holding
\* exactly the other transformers, in their order, deletes both attributes
\* and the namespace entry, and is_enabled() is false afterwards.
C5_DisableRemovesEverything ==
    [][(/\ ipython # "None"
        /\ _is_runtype_enabled
        /\ ret'.op = "disable")
       => (/\ ret'.raised = "None"
           /\ \A i \in 1..Len(ast_transformers') :
                  ast_transformers'[i] \in OtherTransformers
           /\ ast_transformers' =
                  SelectSeq(ast_transformers,
                            LAMBDA t : t \in OtherTransformers)
           /\ _RUNTYPE_ENABLED \notin DOMAIN ip_attrs'
           /\ _RUNTYPE_CONFIG \notin DOMAIN ip_attrs'
           /\ _RUNTYPE_WRAPPER \notin DOMAIN user_ns'
           /\ IsEnabledResult'.value = <<"False">>)]_vars

\* C5 witness: disable() has run on an enabled host that held other
\* transformers, and they are what is left.
C5_Witness ==
    /\ ret.op = "disable"
    /\ ret.printed = "runtype disabled."
    /\ ast_transformers = <<"OtherB", "OtherA">>
    /\ ip_attrs = EmptyDict
    /\ user_ns = EmptyDict

\* C6: disable() on a host that is not enabled returns normally and leaves
\* the transformer list, the attributes and the namespace as they were.
C6_DisableWhenDisabledIsNoOp ==
    [][(/\ ipython # "None"
        /\ ~_is_runtype_enabled
        /\ ret'.op = "disable")
       => (/\ ret'.raised = "None"
           /\ ast_transformers' = ast_transformers
           /\ ip_attrs' = ip_attrs
           /\ user_ns' = user_ns)]_vars

\* C6 witness: disable() has returned its notice on a disabled host whose
\* list still holds a transformer instance from a failed enable.
C6_Witness ==
    /\ ret.op = "disable"
    /\ ret.printed = "runtype is not enabled."
    /\ ~_is_runtype_enabled
    /\ CountRuntype(ast_transformers) >= 1

\* C7: enable() with a flag that is no boolean raises TypeError and leaves
\* the attributes, the transformer list and the namespace as they were,
\* enabled or not.
C7_NonBooleanFlagRejected ==
    [][(/\ ret'.op = "enable"
        /\ \E i \in 1..4 : ret'.args[i] \notin {"True", "False"})
       => (/\ ret'.raised = "TypeError"
           /\ ip_attrs' = ip_attrs
           /\ ast_transformers' = ast_transformers
           /\ user_ns' = user_ns)]_vars

\* C7 witness: an enabled host has rejected a call whose last flag is 1.
C7_Witness ==
    /\ ret.op = "enable"
    /\ ret.raised = "TypeError"
    /\ ret.args = <<"True", "True", "True", "1">>
    /\ _is_runtype_enabled
    /\ _RUNTYPE_CONFIG \in DOMAIN ip_attrs

-----------------------------------------------------------------------------
(* Properties of the transformer.                                          *)

IsDefinition(n) == n.type \in {"FunctionDef", "AsyncFunctionDef"}

\* Every def and async def at or below n has the marker among its decorators.
RECURSIVE AllDefinitionsMarked(_)
AllDefinitionsMarked(n) ==
    /\ IsDefinition(n) =>
           \E i \in 1..Len(n.decorator_list) : n.decorator_list[i] = MarkerName
    /\ \A i \in 1..Len(n.body) : AllDefinitionsMarked(n.body[i])

\* C8 (as claimed): after the host has parsed a cell in an enabled session,
\* every def and async def of the transformed cell carries the marker,
\* at top level, in a class body and inside another function's body.
C8_EveryDefinitionMarked ==
    (/\ ret.op = "run_cell"
     /\ _is_runtype_enabled)
    => AllDefinitionsMarked(ret.value[1])

\* The number of plain-name marker entries in a decorator list.
CountMarker(decorator_list) ==
    Cardinality({i \in 1..Len(decorator_list) :
                    decorator_list[i] = MarkerName})

-----------------------------------------------------------------------------
(* Properties of the wrapper, checked under SpecCall.                      *)

\* The body of the wrapped function ran in the last call: a validator was
\* built and every argument passed.
BodyRan ==
    /\ ret.op \in {"call", "await"}
    /\ IsWrapper(wrapped)
    /\ ~SchemaFails(wrapped.wraps, wrapped.closure.config)
    /\ \A i \in 1..Len(ret.args) :
           ValidInt(ret.args[i], wrapped.closure.config.strict)

\* C10 (as claimed): whatever exception the body of the wrapped function
\* raises leaves the wrapper as that same exception, class and message,
\* and never as a RuntypeError, also when its class is pydantic's
\* ValidationError or PydanticSchemaGenerationError.
C10_BodyExceptionPassesThrough ==
    (BodyRan /\ wrapped.wraps.body.kind = "raise")
    => (/\ ret.raised = wrapped.wraps.body.exc[1].type
        /\ ret.exc = wrapped.wraps.body.exc
        /\ ret.raised # "RuntypeError")

\* The last operation was a call of a wrapper.
WrapperCalled ==
    /\ ret.op \in {"call", "await"}
    /\ IsWrapper(wrapped)

\* The positions of the arguments of the last call that are no int under
\* the strictness the wrapper validates with.
BadArgs ==
    {i \in 1..Len(ret.args) :
        ~ValidInt(ret.args[i], wrapped.closure.config.strict)}

\* C11: when the engine rejects a call of the wrapper, the wrapper raises
\* RuntypeError with the engine's descriptors, one for each argument that
\* does not pass and naming it, and with the engine's exception as
\* original_exception; when the engine cannot build a schema the wrapper
\* raises RuntypeError with the one generic descriptor and the engine's
\* exception as original_exception; no call of a wrapper raises
\* ValidationError or PydanticSchemaGenerationError.
C11_EngineFailuresBecomeRuntypeError ==
    WrapperCalled =>
      LET engine == ValidatedCall(wrapped.wraps, wrapped.closure, ret.args)
          failed == engine.kind = "raise"
      IN
      /\ ret.raised \notin {"ValidationError", "PydanticSchemaGenerationError"}
      /\ (failed /\ engine.exc[1].type = "ValidationError")
            => /\ ret.raised = "RuntypeError"
               /\ ret.exc[1].errors = engine.exc[1].errors
               /\ ret.exc[1].original_exception = engine.exc
      /\ (failed /\ engine.exc[1].type = "PydanticSchemaGenerationError")
            => /\ ret.raised = "RuntypeError"
               /\ ret.exc[1].errors
                    = <<[msg |-> "Failed to generate Pydantic schema"]>>
               /\ ret.exc[1].original_exception = engine.exc
      /\ (~SchemaFails(wrapped.wraps, wrapped.closure.config)
            /\ BadArgs # {})
            => /\ ret.raised = "RuntypeError"
               /\ Len(ret.exc[1].errors) = Cardinality(BadArgs)
               /\ \A i \in BadArgs :
                     \E k \in 1..Len(ret.exc[1].errors) :
                        /\ ret.exc[1].errors[k].loc
                             = <<wrapped.wraps.params[i]>>
                        /\ ret.exc[1].errors[k].input = ret.args[i]
               /\ ret.exc[1].original_exception[1].type = "ValidationError"

\* C11 witness: a wrapper of a function of x and y was called with a bad x
\* and a good y and raised RuntypeError with the one descriptor, for x.
C11_Witness ==
    /\ WrapperCalled
    /\ ret.args = <<"'a'", "1">>
    /\ ret.raised = "RuntypeError"
    /\ Len(ret.exc[1].errors) = 1
    /\ ret.exc[1].errors[1].loc = <<"x">>
    /\ ret.exc[1].original_exception[1].type = "ValidationError"

\* The same callable in the other shape: a wrapper of the coroutine function
\* for a wrapper of the plain function, and the other way round.
OtherShape(f) ==
    LET t == IF f.type = "function" THEN "coroutine function" ELSE "function"
    IN [f EXCEPT !.type = t, !.wraps.type = t]

\* C14: a wrapper has the shape of the function it wraps, and a call of the
\* wrapper of a coroutine function, awaited, ends as the call of the wrapper
\* of the plain function with the same annotations, body, configuration and
\* arguments ends: the same value returned or the same exception raised,
\* RuntypeError with the same descriptors included.
C14_AsyncWrapperMatchesSync ==
    WrapperCalled =>
      /\ wrapped.type = wrapped.wraps.type
      /\ (ret.op = "await") = (wrapped.wraps.type = "coroutine function")
      /\ CallResult(OtherShape(wrapped), ret.args).value = ret.value
      /\ CallResult(OtherShape(wrapped), ret.args).exc = ret.exc

\* C14 witness: the wrapper of a coroutine function with annotations the
\* engine has no schema for was awaited and raised RuntypeError.
C14_Witness ==
    /\ WrapperCalled
    /\ ret.op = "await"
    /\ wrapped.wraps.schema = "unbuildable"
    /\ ret.raised = "RuntypeError"

\* C17: applying the decorator to a function without the exclusion
\* attribute gives a wrapper whatever the annotations are, and every call
\* of a wrapper whose schema cannot be built raises RuntypeError with the
\* generic descriptor and the engine's exception, whatever the body of the
\* function would have done.
C17_SchemaBuiltAtCallTime ==
    /\ IsWrapper(wrapped) \/ _RUNTYPE_EXCLUSION \in wrapped.attrs
    /\ (WrapperCalled /\ SchemaFails(wrapped.wraps, wrapped.closure.config))
          => /\ ret.raised = "RuntypeError"
             /\ ret.exc[1].errors
                  = <<[msg |-> "Failed to generate Pydantic schema"]>>
             /\ ret.exc[1].original_exception
                  = <<Exc("PydanticSchemaGenerationError",
                          <<[text |-> "Unable to generate pydantic-core schema"]>>,
                          <<>>, <<>>)>>

\* C17 witness: a wrapper was made for a function with annotations the
\* engine has no schema for and a body that raises ValueError, and its call
\* raised RuntypeError.
C17_Witness ==
    /\ WrapperCalled
    /\ wrapped.wraps.schema = "unbuildable"
    /\ wrapped.wraps.body.kind = "raise"
    /\ wrapped.wraps.body.exc[1].type = "ValueError"
    /\ ret.raised = "RuntypeError"

-----------------------------------------------------------------------------
(* Agreement of the pieces of session state, checked under Spec.           *)

\* C18 (as claimed): after every enable_runtype or disable_runtype call
\* that returns normally, is_runtype_enabled() is true exactly when the
\* enabled attribute is set, exactly when a configuration is stored,
\* exactly when ip.ast_transformers holds one RuntypeASTDecorator instance
\* and exactly when the name _runtype is bound in the namespace; a session
\* that is not enabled holds no instance.
C18_SessionStateAgrees ==
    (ret.op \in {"enable", "disable"} /\ ret.raised = "None")
    => LET enabled == IsEnabledResult.value = <<"True">> IN
       /\ enabled = (_RUNTYPE_ENABLED \in DOMAIN ip_attrs)
       /\ enabled = (_RUNTYPE_CONFIG \in DOMAIN ip_attrs)
       /\ enabled = (CountRuntype(ast_transformers) = 1)
       /\ enabled = (_RUNTYPE_WRAPPER \in DOMAIN user_ns)
       /\ ~enabled => CountRuntype(ast_transformers) = 0

-----------------------------------------------------------------------------
(* Properties of sessions of cells, checked under SpecNotebook.            *)

\* The session is ENABLED: an enable_runtype call installed it and no
\* disable_runtype call has removed it since.
SessionEnabled == notebook.enabled_with # <<>>

\* The last statement executed was a definition of f.
Defined == ret.op = "def"

\* The definition last executed has @no_runtype in its source.
SourceExcluded ==
    \E i \in 1..Len(ret.args[1].decorator_list) :
        GetId(ret.args[1].decorator_list[i]) = "no_runtype"

\* C12: whenever the callable bound to f carries the exclusion attribute,
\* it is the function that was defined, with the attribute and no wrapper
\* around it, whatever enable_runtype and disable_runtype calls came before
\* or after its definition and whatever the configuration; no call of it
\* raises RuntypeError.
C12_ExcludedFunctionReturnedAsIs ==
    (wrapped # EmptyDict /\ _RUNTYPE_EXCLUSION \in wrapped.attrs)
    => /\ ~IsWrapper(wrapped)
       /\ wrapped \in {no_runtype(f) : f \in NotebookFunctions}
       /\ ret.op \in {"call", "await"} => ret.raised # "RuntypeError"

\* C12 witness: in an ENABLED session f is bound to a function with the
\* exclusion attribute, and its call with a str returned normally.
C12_Witness ==
    /\ SessionEnabled
    /\ wrapped # EmptyDict
    /\ _RUNTYPE_EXCLUSION \in wrapped.attrs
    /\ ret.op = "call"
    /\ ret.args = <<"'a'">>
    /\ ret.raised = "None"

\* C13 (as claimed): from an enable_runtype(c) call that installed the
\* session to the next disable_runtype, get_runtype_config() returns the
\* flags of c and a wrapper made in that interval validates with the flags
\* of c, whatever the cells do with a dict get_runtype_config() returned.
C13_ConfigurationImmutable ==
    SessionEnabled =>
      LET c == notebook.enabled_with
          config == ConfigDict(c[1], c[2], c[3], c[4])
      IN
      /\ GetConfigResult.value = <<config>>
      /\ (IsWrapper(wrapped) /\ notebook.shares)
            => wrapped.closure = Closure(config, c[2])

\* C15 (as claimed): a definition of f without @no_runtype leaves f bound
\* to a wrapper of the function defined exactly when the session was ENABLED
\* at the moment its cell was parsed.
C15_WrappedIffEnabledAtParse ==
    (Defined /\ ~SourceExcluded)
    => ((/\ ret.raised = "None"
         /\ IsWrapper(wrapped)
         /\ wrapped.wraps = ret.args[1].func)
        <=> notebook.parsed_enabled)

C19_MarkerNameIsBound ==
    (Defined /\ HasMarker(ret.args[1].decorator_list))
    => /\ ret.raised # "NameError"
       /\ _RUNTYPE_WRAPPER \in DOMAIN user_ns

\* C20 (as claimed): the wrapper bound to f validates with the flags the
\* session was installed with when the wrapper was made, at every later
\* moment and on every later call, whatever enable_runtype and
\* disable_runtype calls came in between.
C20_WrapperKeepsItsFlags ==
    IsWrapper(wrapped) =>
      LET c == notebook.wrapped_with
          made == Closure(ConfigDict(c[1], c[2], c[3], c[4]), c[2])
      IN
      /\ wrapped.closure = made
      /\ ret.op = "call"
           => ret.exc = WrapperCall([wrapped EXCEPT !.closure = made],
                                    ret.args).exc

====
